---- MODULE Spec2Model ----
(***************************************************************************)
(* SmartBuilder Pro Lite (backend/main.py): territory scoring engine, the  *)
(* OSM amenity gateway with its TTL cache, and the in-memory stores.       *)
(*                                                                         *)
(* Numbers.  Python floats that are scores are kept as integers counting   *)
(* thousandths of a point (50.0 is 50000): every score is a multiple of    *)
(* 0.5 and every mean of four is a multiple of 0.125, so the              *)
(* representation is exact.  Positions are metres along one meridian, on   *)
(* which the haversine distance of two points is the absolute difference   *)
(* of their positions.  Areas are whole square metres.                     *)
(***************************************************************************)
EXTENDS Integers, Sequences, FiniteSets, TLC

\* ---------------------------------------------------------------- bounds
MaxCount == 4
MaxRoads == 11

MaxProjects == 2
MaxTerritories == 2
MaxTicks == 4

\* ------------------------------------------------------------- variables
VARIABLES pc, centroid, amenities, roads, area_sqm,
          safety, efficiency, accessibility, environmental, overall,
          recommendations, assessment, exc

scoreVars == <<pc, centroid, amenities, roads, area_sqm,
               safety, efficiency, accessibility, environmental, overall,
               recommendations, assessment, exc>>

\* the stores, the OSM cache and its clock, the uuids handed out so far, the
\* outcome of the last request and of the last get_amenities_in_area call
VARIABLES PROJECTS, TERRITORIES, ASSESSMENTS, osm_cache, clock, issued,
          response, fetch

\* what the Overpass service answers at present
VARIABLE overpass

sysVars == <<PROJECTS, TERRITORIES, ASSESSMENTS, osm_cache, clock, issued,
             response, fetch, overpass>>

vars == <<scoreVars, sysVars>>

\* ------------------------------------------------------------ data model
amenity_types ==
    <<"school", "hospital", "pharmacy", "police", "fire_station",
      "bus_station", "parking", "restaurant", "cafe", "bank",
      "post_office", "library", "park", "playground">>

Categories == {amenity_types[i] : i \in 1..Len(amenity_types)}

\* a Python float score of n points
Pts(n) == 1000 * n

\* Python's None (find_closest) and a local that has not been assigned
None == -1

\* float('inf')
Inf == 999999999

Abs(x) == IF x < 0 THEN -x ELSE x

Min(a, b) == IF a < b THEN a ELSE b

\* dict.get(key) / dict.get(key, []): a missing key reads as an empty list
Get(d, key) == IF key \in DOMAIN d THEN d[key] ELSE <<>>

\* truth value of an Optional[float]: None and 0.0 are both false
Truthy(dist) == dist # None /\ dist # 0

\* round(x, 2) rounding ties upward instead of to even
Round2HalfUp(x) == IF x % 10 < 5 THEN 10 * (x \div 10) ELSE 10 * (x \div 10 + 1)

\* round(x, 2) of a float that is an exact multiple of 1/1000: correctly
\* rounded, ties to even
Round2(x) ==
    LET q == x \div 10
        r == x % 10
    IN  IF r < 5 THEN 10 * q
        ELSE IF r > 5 THEN 10 * (q + 1)
        ELSE IF q % 2 = 0 THEN 10 * q ELSE 10 * (q + 1)

\* --------------------------------------------------------------- GeoMath
haversine_distance(lat1, lat2) == Abs(lat2 - lat1)

RECURSIVE ClosestFrom(_, _, _, _)
ClosestFrom(point, list, i, min_dist) ==
    IF i > Len(list) THEN min_dist
    ELSE ClosestFrom(point, list, i + 1,
                     Min(min_dist, haversine_distance(point, list[i].lat)))

find_closest(point, list) ==
    IF list = <<>> THEN None
    ELSE LET min_dist == ClosestFrom(point, list, 1, Inf)
         IN  IF min_dist # Inf THEN min_dist ELSE None

\* --------------------------------------------------------------- scorers
\* the tier block with inclusive comparisons: dist <= near, dist <= far
TierBonusInclusive(point, d, c, near, hi, far, lo) ==
    IF Get(d, c) # <<>>
    THEN LET dist == find_closest(point, d[c])
         IN  IF Truthy(dist) /\ dist <= near THEN hi
             ELSE IF Truthy(dist) /\ dist <= far THEN lo
             ELSE 0
    ELSE 0

\* one "if amenities.get(c): dist = ...; if dist and dist < near: +hi
\*      elif dist and dist < far: +lo" block
TierBonus(point, d, c, near, hi, far, lo) ==
    IF Get(d, c) # <<>>
    THEN LET dist == find_closest(point, d[c])
         IN  IF Truthy(dist) /\ dist < near THEN hi
             ELSE IF Truthy(dist) /\ dist < far THEN lo
             ELSE 0
    ELSE 0

calculate_safety_score(point, d) ==
    LET score == Pts(50)
                 + TierBonus(point, d, "police", 2000, Pts(20), 5000, Pts(10))
                 + TierBonus(point, d, "fire_station", 3000, Pts(15), 7000, Pts(7))
                 + TierBonus(point, d, "hospital", 3000, Pts(15), 5000, Pts(10))
    IN  Min(score, Pts(100))

\* a division that yields inf or nan on a zero divisor and never raises
DivisionNeverRaises(area) == FALSE

\* len(roads) / (area_sqm / 1000000) raises ZeroDivisionError
ZeroDivision(area) == area = 0

\* the density compared with >= in place of >
DensityAtLeast(rds, area, k) == Len(rds) * 1000000 >= k * area

\* road_density > k, for area_sqm > 0
DensityAbove(rds, area, k) == Len(rds) * 1000000 > k * area

\* calculate_efficiency_score with the density tiers written as three
\* separate ifs and the final clamp left out
efficiency_score_unclamped(rds, area, d) ==
    Pts(40)
    + (IF DensityAbove(rds, area, 10) THEN Pts(20) ELSE 0)
    + (IF DensityAbove(rds, area, 5) THEN Pts(15) ELSE 0)
    + (IF DensityAbove(rds, area, 2) THEN Pts(10) ELSE 0)
    + (IF Get(d, "bus_station") # <<>> THEN Pts(15) ELSE 0)
    + (IF Len(Get(d, "parking")) > 2 THEN Pts(10)
       ELSE IF Len(Get(d, "parking")) > 0 THEN Pts(5) ELSE 0)
    + (IF Len(Get(d, "restaurant")) + Len(Get(d, "cafe"))
          + Len(Get(d, "bank")) > 10 THEN Pts(15)
       ELSE IF Len(Get(d, "restaurant")) + Len(Get(d, "cafe"))
               + Len(Get(d, "bank")) > 5 THEN Pts(10) ELSE 0)

calculate_efficiency_score(rds, area, d) ==
    LET density_bonus ==
            IF DensityAbove(rds, area, 10) THEN Pts(20)
            ELSE IF DensityAbove(rds, area, 5) THEN Pts(15)
            ELSE IF DensityAbove(rds, area, 2) THEN Pts(10)
            ELSE 0
        bus_bonus == IF Get(d, "bus_station") # <<>> THEN Pts(15) ELSE 0
        parking_count == Len(Get(d, "parking"))
        parking_bonus == IF parking_count > 2 THEN Pts(10)
                         ELSE IF parking_count > 0 THEN Pts(5)
                         ELSE 0
        commerce == Len(Get(d, "restaurant")) + Len(Get(d, "cafe"))
                    + Len(Get(d, "bank"))
        commerce_bonus == IF commerce > 10 THEN Pts(15)
                          ELSE IF commerce > 5 THEN Pts(10)
                          ELSE 0
        score == Pts(40) + density_bonus + bus_bonus + parking_bonus
                 + commerce_bonus
    IN  Min(score, Pts(100))

\* the services table: category -> (max_dist, points)
services ==
    <<  <<"school", 1000, 20>>, <<"hospital", 3000, 15>>,
        <<"pharmacy", 500, 10>>, <<"park", 1000, 10>>,
        <<"post_office", 2000, 5>>, <<"library", 2000, 5>> >>

\* the loop with an eighth of the points in the farther tier
RECURSIVE ServiceSumEighths(_, _, _)
ServiceSumEighths(point, d, i) ==
    IF i > Len(services) THEN 0
    ELSE LET s == services[i]
         IN  TierBonus(point, d, s[1], s[2], Pts(s[3]),
                       s[2] * 2, Pts(s[3]) \div 8)
             + ServiceSumEighths(point, d, i + 1)

RECURSIVE ServiceSum(_, _, _)
ServiceSum(point, d, i) ==
    IF i > Len(services) THEN 0
    ELSE LET s == services[i]
         IN  TierBonus(point, d, s[1], s[2], Pts(s[3]),
                       s[2] * 2, Pts(s[3]) \div 2)
             + ServiceSum(point, d, i + 1)

calculate_accessibility_score(point, d) ==
    Min(Pts(30) + ServiceSum(point, d, 1), Pts(100))

calculate_environmental_score(d) ==
    LET parks_count == Len(Get(d, "park")) + Len(Get(d, "playground"))
        bonus == IF parks_count > 5 THEN Pts(25)
                 ELSE IF parks_count > 2 THEN Pts(15)
                 ELSE IF parks_count > 0 THEN Pts(10)
                 ELSE 0
    IN  Min(Pts(50) + bonus, Pts(100))

\* ------------------------------------------------------- recommendations
\* A message is a sequence of words; the result is the sequence of messages
\* that "\n".join(recs) puts on successive lines.
MsgSafety == <<"improve_safety_infrastructure">>
MsgEfficiency == <<"develop_roads_and_transit">>
MsgEnvironmental == <<"increase_green_zones">>
MsgWellDeveloped == <<"well_developed_maintain">>

\* the missing list filled without looking at the amenities
MissingAll(d) == <<"schools", "medical", "parks">>

Missing(d) ==
    (IF Get(d, "school") = <<>> THEN <<"schools">> ELSE <<>>)
    \o (IF Get(d, "hospital") = <<>> THEN <<"medical">> ELSE <<>>)
    \o (IF Get(d, "park") = <<>> THEN <<"parks">> ELSE <<>>)

MsgAdd(missing) == <<"add">> \o missing

generate_recommendations(saf, eff, acc, env, d) ==
    LET recs ==
            (IF saf < Pts(60) THEN <<MsgSafety>> ELSE <<>>)
            \o (IF eff < Pts(60) THEN <<MsgEfficiency>> ELSE <<>>)
            \o (IF acc < Pts(60) /\ Missing(d) # <<>>
                THEN <<MsgAdd(Missing(d))>> ELSE <<>>)
            \o (IF env < Pts(60) THEN <<MsgEnvironmental>> ELSE <<>>)
    IN  IF recs = <<>> THEN <<MsgWellDeveloped>> ELSE recs

\* -------------------------------------------- the assessment of a territory
\* lines 381-403 of create_territory, for area_sqm > 0
\* the mean taken by floor division of whole points
OverallFloorDiv(saf, eff, acc, env) ==
    Pts(((saf + eff + acc + env) \div Pts(1)) \div 4)

OverallOf(saf, eff, acc, env) == (saf + eff + acc + env) \div 4

MakeAssessment(territory_id, point, rds, area, d) ==
    LET saf == calculate_safety_score(point, d)
        eff == calculate_efficiency_score(rds, area, d)
        acc == calculate_accessibility_score(point, d)
        env == calculate_environmental_score(d)
        ovr == OverallOf(saf, eff, acc, env)
    IN  [territory_id |-> territory_id,
         safety_score |-> Round2(saf),
         efficiency_score |-> Round2(eff),
         accessibility_score |-> Round2(acc),
         environmental_score |-> Round2(env),
         overall_score |-> Round2(ovr),
         recommendations |-> generate_recommendations(saf, eff, acc, env, d),
         metrics |-> [amenities_count |-> [k \in DOMAIN d |-> Len(d[k])],
                      roads_count |-> Len(rds)]]

NoAssessment == [territory_id |-> None]

\* ======================================================================
\* The OSM gateway: Overpass answers, the TTL cache, get_amenities_in_area
\* ======================================================================

\* TTLCache(maxsize=1000, ttl=3600)
maxsize == 1000
ttl == 3600

\* seconds the clock advances in one step
TickSeconds == ttl \div 2

EmptyDict == [k \in {} |-> <<>>]

\* an entry that never expires
LiveForever(entry, t, tie) == TRUE

\* The cache maps a key to [value, expires].  An entry is live while the
\* clock reads less than expires; at the instant clock = expires the
\* releases of the library differ (tie says which way the test goes).
Live(entry, t, tie) == t < entry.expires \/ (tie /\ t = entry.expires)

\* cache_key in osm_cache
CacheHas(cache, t, tie, key) ==
    key \in DOMAIN cache /\ Live(cache[key], t, tie)

\* expired entries are dropped before an insertion
Purged(cache, t, tie) ==
    [k \in {x \in DOMAIN cache : Live(cache[x], t, tie)} |-> cache[k]]

\* the entry a full cache evicts: the one that expires first
Oldest(cache) ==
    CHOOSE k \in DOMAIN cache :
        \A x \in DOMAIN cache : cache[k].expires <= cache[x].expires

\* osm_cache[cache_key] = results
CachePut(cache, t, tie, key, value) ==
    LET live == Purged(cache, t, tie)
        room == IF key \notin DOMAIN live /\ Cardinality(DOMAIN live) >= maxsize
                THEN [k \in DOMAIN live \ {Oldest(live)} |-> live[k]]
                ELSE live
    IN  (key :> [value |-> value, expires |-> t + ttl]) @@ room

\* f"amenities_{lat}_{lon}_{radius}"
CacheKey(lat, lon, radius) == <<"amenities", lat, lon, radius>>

\* What overpass.query does for one category: it raises, or it returns
\* elements.
Failed == [ok |-> FALSE, elements |-> <<>>]
Found(list) == [ok |-> TRUE, elements |-> list]

\* the service is down: every query raises
OverpassDown == [amenities |-> [c \in Categories |-> Failed], roads |-> Failed]

\* the loop with the try around the whole of it: the first failing query
\* ends it
RECURSIVE QueryLoopAbort(_, _, _)
QueryLoopAbort(answers, i, results) ==
    IF i > Len(amenity_types) \/ ~answers[amenity_types[i]].ok THEN results
    ELSE QueryLoopAbort(answers, i + 1,
                        (amenity_types[i] :> answers[amenity_types[i]].elements)
                        @@ results)

\* the for loop over amenity_types, from category i on
RECURSIVE QueryLoop(_, _, _)
QueryLoop(answers, i, results) ==
    IF i > Len(amenity_types) THEN results
    ELSE LET amenity == amenity_types[i]
             list == IF answers[amenity].ok
                     THEN answers[amenity].elements
                     ELSE <<>>
         IN  QueryLoop(answers, i + 1, (amenity :> list) @@ results)

\* the value returned, the cache afterwards, the external queries issued
get_amenities_in_area(cache, t, tie, lat, lon, radius, answers) ==
    LET cache_key == CacheKey(lat, lon, radius)
    IN  IF CacheHas(cache, t, tie, cache_key)
        THEN [results |-> cache[cache_key].value, cache |-> cache,
              queries |-> 0]
        ELSE LET results == QueryLoop(answers, 1, EmptyDict)
             IN  [results |-> results,
                  cache |-> CachePut(cache, t, tie, cache_key, results),
                  queries |-> Len(amenity_types)]

\* get_roads_in_polygon: the elements found, or [] when the query raises
get_roads_in_polygon(answer) ==
    IF answer.ok THEN answer.elements ELSE <<>>

\* ======================================================================
\* Scoring of one territory: the body of create_territory's try block
\* applied to one set of inputs.
\* ======================================================================

\* amenity lists: elements at the given positions; n elements at one place
At(lats) == [i \in 1..Len(lats) |-> [id |-> i, lat |-> lats[i]]]
Count(n) == [i \in 1..n |-> [id |-> i, lat |-> 700]]
Roads(n) == [i \in 1..n |-> [id |-> i]]

\* an AmenitySet as get_amenities_in_area builds it: every category a key
AmenitySetOf(f) == [c \in Categories |-> IF c \in DOMAIN f THEN f[c] ELSE <<>>]

\* positions around the two thresholds of a tiered bonus
TierLists(near, far) ==
    { <<>>, <<0>>, <<near - 1>>, <<-near>>, <<far - 1>>, <<far>>,
      <<far, 1 - near>> }

Areas == {0, 500000, 1000000}

SafetyInputs ==
    { << AmenitySetOf(("police" :> At(p)) @@ ("fire_station" :> At(f))
                      @@ ("hospital" :> At(h))), Roads(0), 1000000 >> :
        p \in TierLists(2000, 5000), f \in TierLists(3000, 7000),
        h \in TierLists(3000, 5000) }

AccessibilityInputs ==
    { << AmenitySetOf(("school" :> At(s)) @@ ("hospital" :> At(h))
                      @@ ("park" :> At(k)) @@ ("pharmacy" :> At(ph))
                      @@ ("post_office" :> At(po)) @@ ("library" :> At(li))),
         Roads(0), 1000000 >> :
        s \in TierLists(1000, 2000) \ {<<2000, -999>>},
        h \in TierLists(3000, 6000) \ {<<6000, -2999>>},
        k \in TierLists(1000, 2000) \ {<<-1000>>},
        ph \in {<<>>, <<499>>, <<500>>, <<1000, 999>>},
        po \in {<<>>, <<3999>>},
        li \in {<<>>, <<1999>>, <<4000>>} }

EfficiencyInputs ==
    { << AmenitySetOf(("restaurant" :> Count(r)) @@ ("cafe" :> Count(c))
                      @@ ("bank" :> Count(b)) @@ ("parking" :> Count(k))
                      @@ ("bus_station" :> Count(bus))), Roads(n), a >> :
        r \in 0..MaxCount, c \in 0..MaxCount, b \in {0, 3}, k \in {0, 1, 3},
        bus \in {0, 1}, n \in 0..MaxRoads, a \in Areas }

EnvironmentalInputs ==
    { << AmenitySetOf(("park" :> Count(k)) @@ ("playground" :> Count(g))),
         Roads(0), 1000000 >> :
        k \in 0..MaxCount, g \in 0..MaxCount }

MixedInputs ==
    { << AmenitySetOf(("police" :> At(p)) @@ ("hospital" :> At(h))
                      @@ ("school" :> At(s)) @@ ("park" :> At(k))
                      @@ ("pharmacy" :> At(ph))
                      @@ ("bus_station" :> Count(t))
                      @@ ("parking" :> Count(t))), Roads(n), 1000000 >> :
        p \in {<<>>, <<100>>}, h \in {<<>>, <<0>>, <<100>>, <<4000>>},
        s \in {<<>>, <<100>>, <<5000>>}, k \in {<<>>, <<100>>, <<5000>>},
        ph \in {<<>>, <<100>>}, t \in {0, 1}, n \in {0, MaxRoads} }

\* one service category whose nearest element lies exactly on its threshold
\* or on twice its threshold, on either side of the centroid
BoundaryInputs ==
    { << AmenitySetOf(services[i][1] :> At(<<k * services[i][2]>>)),
         Roads(0), 1000000 >> :
        i \in DOMAIN services, k \in {-2, -1, 1, 2} }

ScoreInputs ==
    SafetyInputs \cup AccessibilityInputs \cup EfficiencyInputs
    \cup EnvironmentalInputs \cup MixedInputs \cup BoundaryInputs

\* the stores and the cache right after the module is loaded
StoresEmpty ==
    /\ PROJECTS = EmptyDict
    /\ TERRITORIES = EmptyDict
    /\ ASSESSMENTS = EmptyDict
    /\ osm_cache = EmptyDict
    /\ clock = 0
    /\ issued = [projects |-> 0, territories |-> 0]
    /\ response = [op |-> "none", status |-> 0, id |-> 0]
    /\ fetch = [queries |-> None]

InitScore ==
    /\ StoresEmpty
    /\ overpass = OverpassDown
    /\ pc = "start"
    /\ centroid = 0
    /\ \E inp \in ScoreInputs :
          /\ amenities = inp[1]
          /\ roads = inp[2]
          /\ area_sqm = inp[3]
    /\ safety = None
    /\ efficiency = None
    /\ accessibility = None
    /\ environmental = None
    /\ overall = None
    /\ recommendations = <<>>
    /\ assessment = NoAssessment
    /\ exc = "none"

\* the try block runs to the end: every local is assigned, the assessment
\* is built
Assess ==
    /\ pc = "start"
    /\ ~ZeroDivision(area_sqm)
    /\ safety' = calculate_safety_score(centroid, amenities)
    /\ efficiency' = calculate_efficiency_score(roads, area_sqm, amenities)
    /\ accessibility' = calculate_accessibility_score(centroid, amenities)
    /\ environmental' = calculate_environmental_score(amenities)
    /\ overall' = OverallOf(safety', efficiency', accessibility',
                            environmental')
    /\ recommendations' = generate_recommendations(safety', efficiency',
                              accessibility', environmental', amenities)
    /\ assessment' = MakeAssessment(1, centroid, roads, area_sqm, amenities)
    /\ pc' = "done"
    /\ UNCHANGED <<centroid, amenities, roads, area_sqm, exc, sysVars>>

\* calculate_efficiency_score raises: the locals after safety stay
\* unassigned, control goes to the except clause
AssessRaises ==
    /\ pc = "start"
    /\ ZeroDivision(area_sqm)
    /\ safety' = calculate_safety_score(centroid, amenities)
    /\ exc' = "ZeroDivisionError"
    /\ pc' = "except"
    /\ UNCHANGED <<centroid, amenities, roads, area_sqm, efficiency,
                   accessibility, environmental, overall, recommendations,
                   assessment, sysVars>>

NextScore == Assess \/ AssessRaises

SpecScore == InitScore /\ [][NextScore]_vars

\* ======================================================================
\* get_amenities_in_area called over time against a changing Overpass
\* ======================================================================

\* no scoring in progress
ScoreIdle ==
    /\ pc = "idle"
    /\ centroid = 0
    /\ amenities = EmptyDict
    /\ roads = <<>>
    /\ area_sqm = 0
    /\ safety = None
    /\ efficiency = None
    /\ accessibility = None
    /\ environmental = None
    /\ overall = None
    /\ recommendations = <<>>
    /\ assessment = NoAssessment
    /\ exc = "none"

Idx(c) == CHOOSE i \in 1..Len(amenity_types) : amenity_types[i] = c

\* what is on the map: nothing, or one node of every category, each at
\* its own place
EmptyWorld == [c \in Categories |-> <<>>]
RichWorld == [c \in Categories |-> At(<<100 * Idx(c)>>)]
Worlds == {EmptyWorld, RichWorld}

\* the answers to the 14 amenity queries when the categories in F fail
AnswersOf(world, F) ==
    [c \in Categories |-> IF c \in F THEN Failed ELSE Found(world[c])]

\* the (lat, lon, radius) the function is called with
FetchArgs == {<<0, 0, 1000>>, <<400, 0, 1000>>}

\* a few states of the service: down, up over an empty map, up over the
\* full map, up with one query timing out
FewAnswers ==
    { AnswersOf(EmptyWorld, Categories), AnswersOf(RichWorld, {}),
      AnswersOf(RichWorld, {"hospital"}) }

InitFetch ==
    /\ StoresEmpty
    /\ ScoreIdle
    /\ \E a \in FewAnswers : overpass = [amenities |-> a, roads |-> Failed]

\* one call get_amenities_in_area(lat, lon, radius)
FetchAmenities ==
    \E args \in FetchArgs, tie \in BOOLEAN :
        LET r == get_amenities_in_area(osm_cache, clock, tie, args[1],
                                       args[2], args[3], overpass.amenities)
        IN  /\ osm_cache' = r.cache
            /\ fetch' = [key |-> CacheKey(args[1], args[2], args[3]),
                         at |-> clock,
                         queries |-> r.queries,
                         results |-> r.results,
                         answers |-> overpass.amenities]
            /\ UNCHANGED <<PROJECTS, TERRITORIES, ASSESSMENTS, clock, issued,
                           response, overpass, scoreVars>>

\* the service changes: it goes down or comes back, the map is edited
OverpassChanges ==
    /\ \E a \in FewAnswers \ {overpass.amenities} :
          overpass' = [overpass EXCEPT !.amenities = a]
    /\ UNCHANGED <<PROJECTS, TERRITORIES, ASSESSMENTS, osm_cache, clock,
                   issued, response, fetch, scoreVars>>

\* time passes
Tick ==
    /\ clock + TickSeconds <= MaxTicks * TickSeconds
    /\ clock' = clock + TickSeconds
    /\ UNCHANGED <<PROJECTS, TERRITORIES, ASSESSMENTS, osm_cache, issued,
                   response, fetch, overpass, scoreVars>>

NextFetch == FetchAmenities \/ OverpassChanges \/ Tick

SpecFetch == InitFetch /\ [][NextFetch]_vars

\* ======================================================================
\* One round of the 14 queries, for every set of failing categories
\* ======================================================================
InitQuery ==
    /\ StoresEmpty
    /\ ScoreIdle
    /\ \E F \in SUBSET Categories :
          overpass = [amenities |-> AnswersOf(RichWorld, F), roads |-> Failed]

NextQuery == FetchAmenities

SpecQuery == InitQuery /\ [][NextQuery]_vars

\* ======================================================================
\* The API: the request handlers over the three stores.  A handler runs
\* from its first statement to its return without an await, so it is one
\* step.  The Overpass service is either down or up for the whole of a
\* behaviour; SpecFetch is where it changes between calls.
\* ======================================================================
ProjectIds == 1..MaxProjects
TerritoryIds == 1..MaxTerritories

\* what Polygon(coordinates[0]) makes of the request: it raises on a ring
\* that is no ring, or gives the area and the centroid
BadRing == [valid |-> FALSE, area_sqm |-> 0, centroid |-> 0]
Polygons ==
    { BadRing,
      [valid |-> TRUE, area_sqm |-> 0, centroid |-> 0],
      [valid |-> TRUE, area_sqm |-> 1000000, centroid |-> 0] }

\* the service is up: every amenity query finds its node, the road query
\* finds roads
OverpassUp == [amenities |-> AnswersOf(RichWorld, {}),
               roads |-> Found(Roads(MaxRoads))]

Reply(op, status, id) == [op |-> op, status |-> status, id |-> id]

\* del d[key]
Del(d, key) == [k \in DOMAIN d \ {key} |-> d[k]]

Init ==
    /\ StoresEmpty
    /\ ScoreIdle
    /\ overpass \in {OverpassDown, OverpassUp}

\* POST /projects with the new project counted as holding one territory
create_project_counts_one ==
    /\ issued.projects < MaxProjects
    /\ LET project_id == issued.projects + 1
       IN  /\ PROJECTS' = (project_id :> [id |-> project_id,
                                          territories_count |-> 1])
                          @@ PROJECTS
           /\ issued' = [issued EXCEPT !.projects = project_id]
           /\ response' = Reply("create_project", 200, project_id)
    /\ UNCHANGED <<TERRITORIES, ASSESSMENTS, osm_cache, clock, fetch,
                   overpass, scoreVars>>

\* POST /projects
create_project ==
    /\ issued.projects < MaxProjects
    /\ LET project_id == issued.projects + 1
       IN  /\ PROJECTS' = (project_id :> [id |-> project_id,
                                          territories_count |-> 0])
                          @@ PROJECTS
           /\ issued' = [issued EXCEPT !.projects = project_id]
           /\ response' = Reply("create_project", 200, project_id)
    /\ UNCHANGED <<TERRITORIES, ASSESSMENTS, osm_cache, clock, fetch,
                   overpass, scoreVars>>

\* GET /projects/{project_id}
get_project ==
    /\ \E project_id \in ProjectIds :
          response' = Reply("get_project",
                            IF project_id \notin DOMAIN PROJECTS
                            THEN 404 ELSE 200,
                            project_id)
    /\ UNCHANGED <<PROJECTS, TERRITORIES, ASSESSMENTS, osm_cache, clock,
                   issued, fetch, overpass, scoreVars>>

\* POST /territories with the territory stored before the project is
\* looked up: an unknown project is answered 404 with the territory kept
create_territory_stores_first ==
    /\ \E project_id \in ProjectIds, polygon \in Polygons :
          /\ project_id \notin DOMAIN PROJECTS
          /\ polygon.valid
          /\ issued.territories < MaxTerritories
          /\ TERRITORIES' =
                 (issued.territories + 1 :>
                      [id |-> issued.territories + 1,
                       project_id |-> project_id,
                       area_sqm |-> polygon.area_sqm,
                       centroid |-> polygon.centroid])
                 @@ TERRITORIES
          /\ issued' = [issued EXCEPT !.territories = @ + 1]
          /\ response' = Reply("create_territory", 404, project_id)
    /\ UNCHANGED <<PROJECTS, ASSESSMENTS, osm_cache, clock, fetch, overpass,
                   scoreVars>>

\* POST /territories, project unknown or ring rejected by Polygon(): the
\* handler raises before it stores anything
create_territory_rejected ==
    /\ \E project_id \in ProjectIds, polygon \in Polygons :
          \/ /\ project_id \notin DOMAIN PROJECTS
             /\ response' = Reply("create_territory", 404, project_id)
          \/ /\ project_id \in DOMAIN PROJECTS
             /\ ~polygon.valid
             /\ response' = Reply("create_territory", 500, project_id)
    /\ UNCHANGED <<PROJECTS, TERRITORIES, ASSESSMENTS, osm_cache, clock,
                   issued, fetch, overpass, scoreVars>>

\* POST /territories: the territory is stored and counted, then the
\* amenities and roads are fetched and the assessment is computed and
\* stored; an exception on the way is printed and the territory returned
create_territory ==
    \E project_id \in DOMAIN PROJECTS, polygon \in Polygons, tie \in BOOLEAN :
        /\ polygon.valid
        /\ issued.territories < MaxTerritories
        /\ LET territory_id == issued.territories + 1
               r == get_amenities_in_area(osm_cache, clock, tie,
                                          polygon.centroid, 0, 1000,
                                          overpass.amenities)
               rds == get_roads_in_polygon(overpass.roads)
           IN  /\ TERRITORIES' =
                      (territory_id :> [id |-> territory_id,
                                        project_id |-> project_id,
                                        area_sqm |-> polygon.area_sqm,
                                        centroid |-> polygon.centroid])
                      @@ TERRITORIES
               /\ PROJECTS' =
                      [PROJECTS EXCEPT ![project_id].territories_count = @ + 1]
               /\ osm_cache' = r.cache
               /\ ASSESSMENTS' =
                      IF ZeroDivision(polygon.area_sqm)
                      THEN ASSESSMENTS
                      ELSE (territory_id :>
                                MakeAssessment(territory_id, polygon.centroid,
                                               rds, polygon.area_sqm,
                                               r.results))
                           @@ ASSESSMENTS
               /\ issued' = [issued EXCEPT !.territories = territory_id]
               /\ response' = Reply("create_territory", 200, territory_id)
        /\ UNCHANGED <<clock, fetch, overpass, scoreVars>>

\* GET /territories/{territory_id}
get_territory ==
    /\ \E territory_id \in TerritoryIds :
          response' = Reply("get_territory",
                            IF territory_id \notin DOMAIN TERRITORIES
                            THEN 404 ELSE 200,
                            territory_id)
    /\ UNCHANGED <<PROJECTS, TERRITORIES, ASSESSMENTS, osm_cache, clock,
                   issued, fetch, overpass, scoreVars>>

\* GET /assessments/{territory_id}
get_assessment ==
    /\ \E territory_id \in TerritoryIds :
          response' = Reply("get_assessment",
                            IF territory_id \notin DOMAIN ASSESSMENTS
                            THEN 404 ELSE 200,
                            territory_id)
    /\ UNCHANGED <<PROJECTS, TERRITORIES, ASSESSMENTS, osm_cache, clock,
                   issued, fetch, overpass, scoreVars>>

\* the loop without its "if t_id in ASSESSMENTS: del ASSESSMENTS[t_id]"
RECURSIVE DeleteLoopTerritoriesOnly(_, _, _)
DeleteLoopTerritoriesOnly(stores, to_delete, i) ==
    IF i > Len(to_delete) THEN stores
    ELSE DeleteLoopTerritoriesOnly(
             [territories |-> Del(stores.territories, to_delete[i]),
              assessments |-> stores.assessments],
             to_delete, i + 1)

\* the loop of delete_project over territories_to_delete
RECURSIVE DeleteLoop(_, _, _)
DeleteLoop(stores, to_delete, i) ==
    IF i > Len(to_delete) THEN stores
    ELSE LET t_id == to_delete[i]
         IN  DeleteLoop([territories |-> Del(stores.territories, t_id),
                         assessments |->
                             IF t_id \in DOMAIN stores.assessments
                             THEN Del(stores.assessments, t_id)
                             ELSE stores.assessments],
                        to_delete, i + 1)

\* the comprehension without its "if t["project_id"] == project_id"
RECURSIVE TerritoriesOfAll(_, _, _)
TerritoriesOfAll(territories, project_id, t_id) ==
    IF t_id > MaxTerritories THEN <<>>
    ELSE (IF t_id \in DOMAIN territories THEN <<t_id>> ELSE <<>>)
         \o TerritoriesOfAll(territories, project_id, t_id + 1)

\* [t_id for t_id, t in TERRITORIES.items() if t["project_id"] == project_id]
\* (a dict lists its keys in insertion order, here the order of the ids)
RECURSIVE TerritoriesOf(_, _, _)
TerritoriesOf(territories, project_id, t_id) ==
    IF t_id > MaxTerritories THEN <<>>
    ELSE (IF t_id \in DOMAIN territories
             /\ territories[t_id].project_id = project_id
          THEN <<t_id>> ELSE <<>>)
         \o TerritoriesOf(territories, project_id, t_id + 1)

\* DELETE /projects/{project_id} without the loop over the territories of
\* the project: only the project is removed
delete_project_only ==
    /\ \E project_id \in ProjectIds :
          IF project_id \notin DOMAIN PROJECTS
          THEN /\ response' = Reply("delete_project", 404, project_id)
               /\ UNCHANGED PROJECTS
          ELSE /\ PROJECTS' = Del(PROJECTS, project_id)
               /\ response' = Reply("delete_project", 200, project_id)
    /\ UNCHANGED <<TERRITORIES, ASSESSMENTS, osm_cache, clock, issued, fetch,
                   overpass, scoreVars>>

\* DELETE /projects/{project_id}
delete_project ==
    /\ \E project_id \in ProjectIds :
          IF project_id \notin DOMAIN PROJECTS
          THEN /\ response' = Reply("delete_project", 404, project_id)
               /\ UNCHANGED <<PROJECTS, TERRITORIES, ASSESSMENTS>>
          ELSE LET territories_to_delete ==
                       TerritoriesOf(TERRITORIES, project_id, 1)
                   after == DeleteLoop([territories |-> TERRITORIES,
                                        assessments |-> ASSESSMENTS],
                                       territories_to_delete, 1)
               IN  /\ TERRITORIES' = after.territories
                   /\ ASSESSMENTS' = after.assessments
                   /\ PROJECTS' = Del(PROJECTS, project_id)
                   /\ response' = Reply("delete_project", 200, project_id)
    /\ UNCHANGED <<osm_cache, clock, issued, fetch, overpass, scoreVars>>

\* GET /stats (and GET /, GET /projects): nothing is written
get_stats ==
    /\ response' = Reply("get_stats", 200, 0)
    /\ UNCHANGED <<PROJECTS, TERRITORIES, ASSESSMENTS, osm_cache, clock,
                   issued, fetch, overpass, scoreVars>>

\* an hour passes: every cache entry written before it has expired
HourPasses ==
    /\ clock + ttl <= MaxTicks * TickSeconds
    /\ clock' = clock + ttl
    /\ UNCHANGED <<PROJECTS, TERRITORIES, ASSESSMENTS, osm_cache, issued,
                   response, fetch, overpass, scoreVars>>

Next ==
    \/ create_project
    \/ get_project
    \/ create_territory_rejected
    \/ create_territory
    \/ get_territory
    \/ get_assessment
    \/ delete_project
    \/ get_stats
    \/ HourPasses

Spec == Init /\ [][Next]_vars

\* ======================================================================
\* Properties of the scoring (checked under SpecScore)
\* ======================================================================
ScoreRange == 0..Pts(100)

\* the distance from the centroid to the nearest element of category c,
\* stated without the scorer's loop
Nearest(c) ==
    LET ds == {Abs(amenities[c][i].lat - centroid) : i \in DOMAIN amenities[c]}
    IN  CHOOSE m \in ds : \A x \in ds : m <= x

\* the tiered bonus of category c as the specification words it: an empty
\* category contributes nothing, every distance d >= 0 of a present one
\* counts
SpecTier(c, near, hi, far, lo) ==
    IF amenities[c] = <<>> THEN 0
    ELSE IF Nearest(c) < near THEN hi
    ELSE IF Nearest(c) < far THEN lo
    ELSE 0

\* C1: each of the four scorers returns a value in [0, 100] for every
\* AmenitySet, road count and positive area (with a positive area the
\* scoring never raises), and so does every sub-score of the assessment
\* that is built from them.
C1_ScoresInRange ==
    /\ pc # "start" => safety \in ScoreRange
    /\ area_sqm > 0 => pc # "except"
    /\ pc = "done" =>
          /\ efficiency \in ScoreRange
          /\ accessibility \in ScoreRange
          /\ environmental \in ScoreRange
          /\ assessment.safety_score \in ScoreRange
          /\ assessment.efficiency_score \in ScoreRange
          /\ assessment.accessibility_score \in ScoreRange
          /\ assessment.environmental_score \in ScoreRange

\* the efficiency scorer has acted on the largest counts and every bonus
\* applies: the score sits on the upper end of the range
C1_Witness ==
    /\ pc = "done"
    /\ efficiency = Pts(100)
    /\ Len(amenities["restaurant"]) + Len(amenities["cafe"])
       + Len(amenities["bank"]) > 10
    /\ Len(roads) * 1000000 > 10 * area_sqm

\* C2 (as claimed): safety = min(100, 50 + P + F + H), every nearest
\* distance d >= 0 of a non-empty category counted, d = 0 included.
C2_SafetyFormula ==
    pc # "start" =>
        safety = Min(Pts(100),
                     Pts(50)
                     + SpecTier("police", 2000, Pts(20), 5000, Pts(10))
                     + SpecTier("fire_station", 3000, Pts(15), 7000, Pts(7))
                     + SpecTier("hospital", 3000, Pts(15), 5000, Pts(10)))

\* C3 (as claimed): accessibility = min(100, 30 + sum over the six service
\* categories of full points below the threshold, half points below twice
\* the threshold), d = 0 included.
C3_AccessibilityFormula ==
    pc = "done" =>
        accessibility =
            Min(Pts(100),
                Pts(30)
                + SpecTier("school", 1000, Pts(20), 2000, Pts(10))
                + SpecTier("hospital", 3000, Pts(15), 6000, 7500)
                + SpecTier("pharmacy", 500, Pts(10), 1000, Pts(5))
                + SpecTier("park", 1000, Pts(10), 2000, Pts(5))
                + SpecTier("post_office", 2000, Pts(5), 4000, 2500)
                + SpecTier("library", 2000, Pts(5), 4000, 2500))

\* C4 (as claimed): with a polygon area of 0 the efficiency scorer does not
\* fail; it returns a score in [0, 100] that carries no density bonus.
C4_ZeroAreaHasFallback ==
    (pc # "start" /\ area_sqm = 0) =>
        /\ exc = "none"
        /\ efficiency \in ScoreRange

AllAtLeast60 ==
    /\ safety >= Pts(60)
    /\ efficiency >= Pts(60)
    /\ accessibility >= Pts(60)
    /\ environmental >= Pts(60)

\* C5 (as claimed): the recommendations are the single well-developed
\* message exactly when all four scores are >= 60, and the message is
\* absent whenever some score is below 60.
C5_WellDevelopedIffAllAtLeast60 ==
    pc = "done" =>
        /\ (recommendations = <<MsgWellDeveloped>>) <=> AllAtLeast60
        /\ ~AllAtLeast60 =>
              \A i \in DOMAIN recommendations :
                  recommendations[i] # MsgWellDeveloped

\* y is x rounded to 2 decimals, ties to the even hundredth
IsRounded2(y, x) ==
    /\ y % 10 = 0
    /\ 2 * Abs(y - x) <= 10
    /\ 2 * Abs(y - x) = 10 => (y \div 10) % 2 = 0

\* C10: the stored overall score is the mean of the four unrounded scorer
\* results rounded to 2 decimals, and each stored sub-score is its scorer
\* result rounded to 2 decimals.
C10_OverallFromUnrounded ==
    pc = "done" =>
        /\ (safety + efficiency + accessibility + environmental) % 4 = 0
        /\ IsRounded2(assessment.overall_score,
                      (safety + efficiency + accessibility + environmental)
                      \div 4)
        /\ IsRounded2(assessment.safety_score, safety)
        /\ IsRounded2(assessment.efficiency_score, efficiency)
        /\ IsRounded2(assessment.accessibility_score, accessibility)
        /\ IsRounded2(assessment.environmental_score, environmental)

\* an assessment whose mean lies exactly between two hundredths and is
\* rounded down to the even one
C10_Witness ==
    /\ pc = "done"
    /\ (safety + efficiency + accessibility + environmental) % 40 = 20
    /\ assessment.overall_score * 4
       < safety + efficiency + accessibility + environmental

\* what category c adds to the safety score: the score less the score of
\* the same AmenitySet with c emptied (50 + 20 + 15 + 15 never exceeds 100,
\* so the clamp hides nothing)
SafetyGain(c) ==
    safety - calculate_safety_score(centroid, [amenities EXCEPT ![c] = <<>>])

\* the same for the accessibility score (30 + 20 + 15 + 10 + 10 + 5 + 5 = 95)
AccessibilityGain(c) ==
    accessibility
    - calculate_accessibility_score(centroid, [amenities EXCEPT ![c] = <<>>])

\* category, nearer threshold, its points, farther threshold, its points
SafetyThresholds ==
    { <<"police", 2000, 20, 5000, 10>>, <<"fire_station", 3000, 15, 7000, 7>>,
      <<"hospital", 3000, 15, 5000, 10>> }

\* category, threshold, full points (half of them below twice the threshold)
AccessibilityThresholds ==
    { <<"school", 1000, 20>>, <<"hospital", 3000, 15>>,
      <<"pharmacy", 500, 10>>, <<"park", 1000, 10>>,
      <<"post_office", 2000, 5>>, <<"library", 2000, 5>> }

\* C11: distance thresholds are strict. A category whose nearest amenity
\* is at exactly the nearer threshold receives the farther tier's bonus and
\* not the nearer one's; at exactly the farther threshold (twice the
\* threshold, for accessibility) it receives nothing. This holds at every
\* threshold of calculate_safety_score and calculate_accessibility_score.
C11_ThresholdsAreStrict ==
    pc = "done" =>
        /\ \A t \in SafetyThresholds :
              amenities[t[1]] # <<>> =>
                  /\ Nearest(t[1]) = t[2] => SafetyGain(t[1]) = Pts(t[5])
                  /\ Nearest(t[1]) = t[4] => SafetyGain(t[1]) = 0
        /\ \A s \in AccessibilityThresholds :
              amenities[s[1]] # <<>> =>
                  /\ Nearest(s[1]) = s[2] =>
                        AccessibilityGain(s[1]) = Pts(s[3]) \div 2
                  /\ Nearest(s[1]) = 2 * s[2] => AccessibilityGain(s[1]) = 0

\* one police amenity at exactly 2000 m has been scored: +10 and not +20
C11_Witness ==
    /\ pc = "done"
    /\ Len(amenities["police"]) = 1
    /\ Nearest("police") = 2000
    /\ SafetyGain("police") = Pts(10)
    /\ safety = Pts(60)

\* the roads per square kilometre exceed k (area_sqm > 0)
DensityExceeds(k) == Len(roads) * 1000000 > k * area_sqm

\* the density bonuses whose condition, read in descending order, is the
\* first to hold
DensityBonuses ==
    {b \in {<<10, 20>>, <<5, 15>>, <<2, 10>>} :
        /\ DensityExceeds(b[1])
        /\ \A h \in {<<10, 20>>, <<5, 15>>, <<2, 10>>} :
              h[1] > b[1] => ~DensityExceeds(h[1])}

CommerceCount ==
    Len(amenities["restaurant"]) + Len(amenities["cafe"])
    + Len(amenities["bank"])

\* C12: for area > 0, efficiency = min(100, 40 + D + B + K + C): D is the
\* one density bonus that applies (20 above 10 roads per km2, else 15 above
\* 5, else 10 above 2, else 0, never two at once), B = 15 with a non-empty
\* bus_station list, K = 10 with more than 2 parkings else 5 with more than
\* 0, C = 15 with more than 10 restaurants, cafes and banks together else
\* 10 with more than 5.
C12_EfficiencyFormula ==
    (pc = "done" /\ area_sqm > 0) =>
        LET D == IF DensityBonuses = {} THEN 0
                 ELSE (CHOOSE b \in DensityBonuses : TRUE)[2]
            B == IF amenities["bus_station"] # <<>> THEN 15 ELSE 0
            K == IF Len(amenities["parking"]) > 2 THEN 10
                 ELSE IF Len(amenities["parking"]) > 0 THEN 5 ELSE 0
            C == IF CommerceCount > 10 THEN 15
                 ELSE IF CommerceCount > 5 THEN 10 ELSE 0
        IN  /\ Cardinality(DensityBonuses) <= 1
            /\ efficiency = Min(Pts(100), Pts(40 + D + B + K + C))

\* the scorer has acted on a density above every threshold and on nothing
\* else: only the +20 is added
C12_Witness ==
    /\ pc = "done"
    /\ DensityExceeds(10)
    /\ amenities["bus_station"] = <<>>
    /\ amenities["parking"] = <<>>
    /\ CommerceCount = 0
    /\ efficiency = Pts(60)

\* the message m is one of the lines of the recommendations
HasLine(m) == \E i \in DOMAIN recommendations : recommendations[i] = m

\* the lines that are an accessibility message
AddLines == {i \in DOMAIN recommendations : recommendations[i][1] = "add"}

\* the place of a line in the fixed order of the rules
RuleRank(m) ==
    IF m = MsgSafety THEN 1
    ELSE IF m = MsgEfficiency THEN 2
    ELSE IF m[1] = "add" THEN 3
    ELSE IF m = MsgEnvironmental THEN 4
    ELSE 5

\* the names of the empty ones among school, hospital, park, in that order
EmptyOnes ==
    LET named == << <<"school", "schools">>, <<"hospital", "medical">>,
                    <<"park", "parks">> >>
        empty == SelectSeq(named, LAMBDA n : Len(amenities[n[1]]) = 0)
    IN  [i \in DOMAIN empty |-> empty[i][2]]

\* C13: the recommendations list their messages one per line in the fixed
\* order safety, efficiency, accessibility, environmental; the safety,
\* efficiency and environmental messages are present exactly when their
\* score is below 60; the accessibility message is present exactly when
\* accessibility is below 60 and one of school, hospital, park is empty,
\* and then it names exactly the empty ones, in that order.
C13_RecommendationRules ==
    pc = "done" =>
        /\ HasLine(MsgSafety) <=> safety < Pts(60)
        /\ HasLine(MsgEfficiency) <=> efficiency < Pts(60)
        /\ HasLine(MsgEnvironmental) <=> environmental < Pts(60)
        /\ AddLines # {} <=> (accessibility < Pts(60) /\ EmptyOnes # <<>>)
        /\ \A i \in AddLines : recommendations[i] = <<"add">> \o EmptyOnes
        /\ \A i, j \in DOMAIN recommendations :
              i < j => RuleRank(recommendations[i])
                       < RuleRank(recommendations[j])

\* all four rules have fired on an AmenitySet with a school and without
\* hospital and park: four lines, the third naming the two empty ones
C13_Witness ==
    /\ pc = "done"
    /\ amenities["school"] # <<>>
    /\ recommendations = << MsgSafety, MsgEfficiency,
                            <<"add", "medical", "parks">>,
                            MsgEnvironmental >>

\* every category empty, no road, one square kilometre
BareSquareKilometre ==
    /\ \A c \in Categories : amenities[c] = <<>>
    /\ roads = <<>>
    /\ area_sqm = 1000000

\* C14: for an AmenitySet with every category empty, 0 roads and an area
\* of 1,000,000 m2 the scores are safety 50.0, efficiency 40.0,
\* accessibility 30.0, environmental 50.0, overall 42.5, and the
\* recommendations are the four rule messages in the fixed order, the
\* accessibility one naming school, hospital and park, without the
\* well-developed message.
C14_EmptyExample ==
    (pc = "done" /\ BareSquareKilometre) =>
        /\ safety = Pts(50)
        /\ efficiency = Pts(40)
        /\ accessibility = Pts(30)
        /\ environmental = Pts(50)
        /\ overall = 42500
        /\ assessment.safety_score = Pts(50)
        /\ assessment.efficiency_score = Pts(40)
        /\ assessment.accessibility_score = Pts(30)
        /\ assessment.environmental_score = Pts(50)
        /\ assessment.overall_score = 42500
        /\ recommendations =
              << MsgSafety, MsgEfficiency,
                 <<"add", "schools", "medical", "parks">>, MsgEnvironmental >>
        /\ assessment.recommendations = recommendations
        /\ \A i \in DOMAIN recommendations :
              recommendations[i] # MsgWellDeveloped

\* the bare square kilometre has been assessed
C14_Witness ==
    /\ pc = "done"
    /\ BareSquareKilometre
    /\ assessment.territory_id # None
    /\ Len(assessment.recommendations) = 4

\* x is a multiple of 0.5
IsHalfMultiple(x) == x % 500 = 0

\* C19: every scorer result is a multiple of 0.5, so rounding a sub-score
\* to 2 decimals never changes it, and the overall score computed from the
\* rounded sub-scores is the overall score computed from the unrounded
\* ones.
C19_HalvesSurviveRounding ==
    /\ pc # "start" => IsHalfMultiple(safety)
    /\ pc = "done" =>
          /\ IsHalfMultiple(efficiency)
          /\ IsHalfMultiple(accessibility)
          /\ IsHalfMultiple(environmental)
          /\ assessment.safety_score = safety
          /\ assessment.efficiency_score = efficiency
          /\ assessment.accessibility_score = accessibility
          /\ assessment.environmental_score = environmental
          /\ LET rounded == assessment.safety_score
                            + assessment.efficiency_score
                            + assessment.accessibility_score
                            + assessment.environmental_score
             IN  /\ rounded % 4 = 0
                 /\ rounded \div 4 = overall
                 /\ IsRounded2(assessment.overall_score, rounded \div 4)

\* an accessibility score with half points (x.5) has been stored, and the
\* mean of the four scores has more than 2 decimals
C19_Witness ==
    /\ pc = "done"
    /\ accessibility % 1000 = 500
    /\ assessment.accessibility_score = accessibility
    /\ overall % 10 # 0
    /\ assessment.overall_score # overall

\* ======================================================================
\* Properties of get_amenities_in_area
\* ======================================================================

\* C8: a call with a key whose entry was populated less than ttl seconds
\* ago returns the cached AmenitySet, issues no external query and leaves
\* the cache alone; a call with a key whose entry is older than ttl issues
\* one query per category and stores what it returns as the new entry.
\* (SpecFetch)
C8_Call ==
    (clock' = clock /\ overpass' = overpass) =>
        LET key == fetch'.key
            age == clock - (osm_cache[key].expires - ttl)
        IN  /\ (key \in DOMAIN osm_cache /\ age < ttl) =>
                  /\ fetch'.queries = 0
                  /\ fetch'.results = osm_cache[key].value
                  /\ osm_cache' = osm_cache
            /\ (key \in DOMAIN osm_cache /\ age > ttl) =>
                  fetch'.queries = Len(amenity_types)
            /\ fetch'.queries > 0 =>
                  /\ key \in DOMAIN osm_cache'
                  /\ osm_cache'[key] = [value |-> fetch'.results,
                                        expires |-> clock + ttl]

C9_FailuresStayLocal ==
    fetch.queries # None =>
        /\ DOMAIN fetch.results = Categories
        /\ fetch.queries > 0 =>
              \A c \in Categories :
                  fetch.results[c] = IF fetch.answers[c].ok
                                     THEN fetch.answers[c].elements
                                     ELSE <<>>

\* the queries of three categories failed, one of them the first of the
\* list, and the categories between and after them kept their elements
C9_Witness ==
    /\ fetch.queries = Len(amenity_types)
    /\ {c \in Categories : ~fetch.answers[c].ok} = {"school", "police", "bank"}
    /\ fetch.results["hospital"] # <<>>
    /\ fetch.results["playground"] # <<>>
    /\ fetch.results["police"] = <<>>

\* ======================================================================
\* Properties of the handlers (checked under Spec)
\* ======================================================================

\* C6: create_territory for an existing project answers 200 with the new
\* territory, which is then in TERRITORIES; when the scoring raised (the
\* polygon has area 0) no assessment is stored for it, then or at any later
\* time, get_assessment for it answers 404, and the territory stays in the
\* store until its project is deleted.
C6_Step ==
    /\ \A t \in DOMAIN TERRITORIES' \ DOMAIN TERRITORIES :
          /\ response' = Reply("create_territory", 200, t)
          /\ TERRITORIES'[t].project_id \in DOMAIN PROJECTS
    /\ \A t \in DOMAIN TERRITORIES' :
          TERRITORIES'[t].area_sqm = 0 =>
              /\ t \notin DOMAIN ASSESSMENTS'
              /\ (response'.op = "get_assessment" /\ response'.id = t)
                     => response'.status = 404
    /\ \A t \in DOMAIN TERRITORIES \ DOMAIN TERRITORIES' :
          response' = Reply("delete_project", 200, TERRITORIES[t].project_id)

\* C6: every step of the API keeps to C6_Step.
C6_FailedAssessmentKeepsTerritory == [][C6_Step]_vars

\* a territory whose scoring raised is in the store, and a lookup of its
\* assessment has just answered 404
C6_Witness ==
    /\ response.op = "get_assessment"
    /\ response.status = 404
    /\ response.id \in DOMAIN TERRITORIES
    /\ TERRITORIES[response.id].area_sqm = 0

\* the territory ids handed out and no longer stored: their projects were
\* deleted
Deleted(territories, count) == (1..count.territories) \ DOMAIN territories

\* C7: a successful delete_project(p) removes p, every territory of p and
\* every assessment of such a territory, and leaves the projects,
\* territories and assessments of other projects as they were; afterwards
\* get_project(p), get_territory(t) and get_assessment(t) answer 404 for
\* every deleted t.
C7_Step ==
    /\ \A p \in DOMAIN PROJECTS \ DOMAIN PROJECTS' :
          /\ response' = Reply("delete_project", 200, p)
          /\ \A t \in DOMAIN TERRITORIES :
                IF TERRITORIES[t].project_id = p
                THEN t \notin DOMAIN TERRITORIES' /\ t \notin DOMAIN ASSESSMENTS'
                ELSE /\ t \in DOMAIN TERRITORIES'
                     /\ TERRITORIES'[t] = TERRITORIES[t]
                     /\ (t \in DOMAIN ASSESSMENTS) = (t \in DOMAIN ASSESSMENTS')
                     /\ t \in DOMAIN ASSESSMENTS
                            => ASSESSMENTS'[t] = ASSESSMENTS[t]
          /\ \A q \in DOMAIN PROJECTS \ {p} :
                q \in DOMAIN PROJECTS' /\ PROJECTS'[q] = PROJECTS[q]
    /\ (response'.op = "delete_project" /\ response'.status = 200)
           => response'.id \notin DOMAIN PROJECTS'
    /\ \A t \in Deleted(TERRITORIES', issued') :
          /\ t \notin DOMAIN ASSESSMENTS'
          /\ (response'.op \in {"get_territory", "get_assessment"}
              /\ response'.id = t) => response'.status = 404
    /\ \A p \in (1..issued'.projects) \ DOMAIN PROJECTS' :
          (response'.op = "get_project" /\ response'.id = p)
              => response'.status = 404

\* C7: every step of the API keeps to C7_Step.
C7_DeleteCascades == [][C7_Step]_vars

\* a project has just been deleted together with a territory of its own,
\* while a territory of another project and its assessment are still there
C7_Witness ==
    /\ response.op = "delete_project"
    /\ response.status = 200
    /\ Deleted(TERRITORIES, issued) # {}
    /\ \E t \in DOMAIN TERRITORIES : t \in DOMAIN ASSESSMENTS
\* ======================================================================
\* Properties of the stores (checked under Spec)
\* ======================================================================

\* what one step may do to the assessment of territory t: keep it as it
\* is; remove it, in a delete_project of the project that owns t; or store
\* it, in the create_territory call that stores territory t
C15_Step ==
    \A t \in TerritoryIds :
        /\ (t \in DOMAIN ASSESSMENTS /\ t \in DOMAIN ASSESSMENTS') =>
              ASSESSMENTS'[t] = ASSESSMENTS[t]
        /\ (t \in DOMAIN ASSESSMENTS /\ t \notin DOMAIN ASSESSMENTS') =>
              /\ t \in DOMAIN TERRITORIES
              /\ response' = Reply("delete_project", 200,
                                   TERRITORIES[t].project_id)
              /\ TERRITORIES[t].project_id \notin DOMAIN PROJECTS'
        /\ (t \notin DOMAIN ASSESSMENTS /\ t \in DOMAIN ASSESSMENTS') =>
              /\ t \notin DOMAIN TERRITORIES
              /\ t \in DOMAIN TERRITORIES'
              /\ response' = Reply("create_territory", 200, t)

\* C15: an assessment is stored at most once per territory and only by the
\* create_territory call that creates the territory; once stored it is
\* never changed by a later operation, and it disappears only through
\* delete_project of its owning project.
C15_AssessmentWrittenOnce == [][C15_Step]_vars

\* the assessment of territory 1 is stored and a later create_territory
\* has stored territory 2
C15_Witness ==
    /\ 1 \in DOMAIN ASSESSMENTS
    /\ ASSESSMENTS[1].territory_id = 1
    /\ 2 \in DOMAIN TERRITORIES
    /\ response = Reply("create_territory", 200, 2)

\* the three stores are left as they were
StoresUnchanged == UNCHANGED <<PROJECTS, TERRITORIES, ASSESSMENTS>>

\* the step answers a request (response changes). A lookup or a delete of
\* an id its store does not hold is answered 404 with the stores
\* untouched; a create_territory is answered 200 only for a project that
\* PROJECTS held, and its 404 names a project PROJECTS did not hold and
\* leaves the stores untouched.
C16_Step ==
    response' # response =>
        LET op == response'.op
            status == response'.status
            id == response'.id
        IN  /\ (op \in {"get_project", "delete_project"}
                 /\ id \notin DOMAIN PROJECTS) =>
                    (status = 404 /\ StoresUnchanged)
            /\ (op = "get_territory" /\ id \notin DOMAIN TERRITORIES) =>
                    (status = 404 /\ StoresUnchanged)
            /\ (op = "get_assessment" /\ id \notin DOMAIN ASSESSMENTS) =>
                    (status = 404 /\ StoresUnchanged)
            /\ (op = "create_territory" /\ status = 200) =>
                    /\ id \in DOMAIN TERRITORIES'
                    /\ TERRITORIES'[id].project_id \in DOMAIN PROJECTS
            /\ (op = "create_territory" /\ status # 200) =>
                    /\ status = 404 <=> id \notin DOMAIN PROJECTS
                    /\ StoresUnchanged
            /\ status = 404 => StoresUnchanged

\* C16: every operation that references an unknown identifier (get_project,
\* delete_project, create_territory with an unknown project; get_territory
\* with an unknown territory; get_assessment for a territory without
\* assessment) is answered 404 and leaves PROJECTS, TERRITORIES and
\* ASSESSMENTS unchanged.
C16_UnknownIdIs404 == [][C16_Step]_vars

\* a create_territory for a project that does not exist has been answered
\* while another project holds a territory and its assessment
C16_Witness ==
    /\ response.op = "create_territory"
    /\ response.status = 404
    /\ response.id \notin DOMAIN PROJECTS
    /\ TERRITORIES # EmptyDict
    /\ ASSESSMENTS # EmptyDict

\* C17: referential integrity holds in every reachable state, the handlers
\* being atomic: every key of ASSESSMENTS is a key of TERRITORIES and the
\* assessment's territory_id is its key; every territory's project_id is a
\* key of PROJECTS.
C17_ReferentialIntegrity ==
    /\ \A a \in DOMAIN ASSESSMENTS :
          /\ a \in DOMAIN TERRITORIES
          /\ ASSESSMENTS[a].territory_id = a
    /\ \A t \in DOMAIN TERRITORIES :
          TERRITORIES[t].project_id \in DOMAIN PROJECTS

\* a project with a territory and its assessment has been deleted while
\* another project keeps a territory and its assessment
C17_Witness ==
    /\ response.op = "delete_project"
    /\ response.status = 200
    /\ issued.territories = 2
    /\ Cardinality(DOMAIN TERRITORIES) = 1
    /\ DOMAIN ASSESSMENTS = DOMAIN TERRITORIES

\* the territories stored under project p
TerritoriesUnder(p) ==
    {t \in DOMAIN TERRITORIES : TERRITORIES[t].project_id = p}

\* C18: in every reachable state each project's territories_count is the
\* number of territories in TERRITORIES whose project_id is that project.
C18_CountMatchesTerritories ==
    \A p \in DOMAIN PROJECTS :
        PROJECTS[p].territories_count = Cardinality(TerritoriesUnder(p))

\* a project holds two territories, one of them without assessment, and
\* counts two
C18_Witness ==
    \E p \in DOMAIN PROJECTS :
        /\ PROJECTS[p].territories_count = 2
        /\ Cardinality(TerritoriesUnder(p)) = 2
        /\ \E t \in TerritoriesUnder(p) : t \notin DOMAIN ASSESSMENTS

====
